---------------------------- MODULE Spec2Model ----------------------------
(***************************************************************************)
(* ST7735 TFT driver (src/source/st7735.h): the 4-wire SPI transport, the  *)
(* panel initialisation script, the framebuffer, the drawing operations    *)
(* and the full-frame Update.                                              *)
(*                                                                         *)
(* The driver is a template over width and height; the model instantiates  *)
(* it on a small panel (Width x Height).  The coordinate type of the       *)
(* drawing operations is uint_fast8_t, whose width the C library chooses:  *)
(* 8 bits (glibc on x86: arithmetic on it is promoted to int) or 32 bits   *)
(* (newlib on ARM, the Daisy target: it is unsigned int and arithmetic on  *)
(* it wraps modulo 2^32).  fastBits holds the width of the build.  A       *)
(* 32-bit value v is held as its two's-complement residue (v, or v - 2^32  *)
(* when v >= 2^31), which is also what the cast (int)v yields; the model   *)
(* only produces residues of small magnitude.                              *)
(***************************************************************************)
EXTENDS Integers, Sequences, FiniteSets, TLC

\* ------------------------------------------------------------------ bounds
\* template <size_t width, size_t height, ...>: the instance that is checked
Width == 5
Height == 3
\* calls made after Init in the life-cycle specification
MaxCalls == 2
\* calls made in the FillColor/Update specification
MaxRounds == 4
\* iterations of the loop of DrawLineColor that are followed
MaxLineSteps == 8

\* sizeof(buffer_)
BufSize == Width * Height * 2

\* --------------------------------------------------------- colour constants
COLOR_BLACK == 0
COLOR_WHITE == 65535
COLOR_RED == 63488
COLOR_GREEN == 2016
COLOR_CYAN == 2047
COLOR_MAGENTA == 63519
COLOR_YELLOW == 65504
COLOR_ORANGE == 64512
COLOR_PURPLE == 30735
COLOR_LIME == 34784
COLOR_NAVY == 16
COLOR_BROWN == 33280
COLOR_DARKBLUE == 17
COLOR_SKYBLUE == 23839

VARIABLES
  fastBits,            \* width in bits of uint_fast8_t in this build
  inited,              \* Init has run (the SPI handle and the pins are set up)
  buffer_,             \* uint8_t buffer_[width * height * 2], indexed from 0
  foreground_color_,
  background_color_,
  accent_color_,
  pin_dc_,             \* level last written to each GPIO: "unset", "low", "high"
  pin_cs_,
  pin_reset_,
  wire,                \* everything the transport did on the bus, in order
  hist,                \* the calls made so far, each with the state it started in
  line                 \* a DrawLineColor call in progress: its locals and position

vars == <<fastBits, inited, buffer_, foreground_color_, background_color_,
          accent_color_, pin_dc_, pin_cs_, pin_reset_, wire, hist, line>>

\* ---------------------------------------------------------- integer types
FastWidths == {8, 32}

\* conversion of an integer to uint_fast8_t
FastWrap(n) == IF fastBits = 8 THEN n % 256 ELSE n

\* a < b on two unsigned 32-bit values held as two's-complement residues
ULess(a, b) == IF (a < 0) = (b < 0) THEN a < b ELSE b < 0

\* a < b where a, b have the type uint_fast8_t arithmetic is done in:
\* int when uint_fast8_t is 8 bits wide, unsigned int when it is 32
FastLess(a, b) == IF fastBits = 8 THEN a < b ELSE ULess(a, b)

\* the largest uint_fast8_t value: 255, or 2^32 - 1 (held as -1)
FastMax == FastWrap(-1)

\* conversion to uint8_t
Byte(n) == n % 256

\* ------------------------------------------------------------- transport
Level(b) == IF b THEN "high" ELSE "low"

\* the transport object: its three pins and what it has put on the bus
Transport == [dc |-> pin_dc_, cs |-> pin_cs_, reset |-> pin_reset_, wire |-> wire]

\* GPIO::Init(pin, OUTPUT)
GpioInit(t, pin) == [t EXCEPT !.wire = Append(@, [kind |-> "mode", pin |-> pin])]

\* GPIO::Write(level)
GpioWrite(t, pin, b) ==
  [t EXCEPT ![pin] = Level(b),
            !.wire = Append(@, [kind |-> "pin", pin |-> pin, level |-> Level(b)])]

\* SpiHandle::Init
SpiInit(t) == [t EXCEPT !.wire = Append(@, [kind |-> "spi"])]

\* System::Delay(ms)
Delay(t, ms) == [t EXCEPT !.wire = Append(@, [kind |-> "delay", ms |-> ms])]

\* SpiHandle::BlockingTransmit(buff, size): the bytes go out under the pin
\* levels of the moment
BlockingTransmit(t, bytes) ==
  [t EXCEPT !.wire = Append(@, [kind |-> "tx", bytes |-> bytes,
                                dc |-> t.dc, cs |-> t.cs])]

SendCommand(t, cmd) ==
  LET t1 == GpioWrite(t, "dc", FALSE)
      t2 == GpioWrite(t1, "cs", FALSE)
      t3 == BlockingTransmit(t2, <<cmd>>)
  IN  GpioWrite(t3, "cs", TRUE)

\* SendData without the write to the data/command pin
SendDataNoDc(t, buff) ==
  LET t2 == GpioWrite(t, "cs", FALSE)
      t3 == BlockingTransmit(t2, buff)
  IN  GpioWrite(t3, "cs", TRUE)

SendData(t, buff) ==
  LET t1 == GpioWrite(t, "dc", TRUE)
      t2 == GpioWrite(t1, "cs", FALSE)
      t3 == BlockingTransmit(t2, buff)
  IN  GpioWrite(t3, "cs", TRUE)

\* the transport's Init with a settle time of 12 after the reset pulse
TransportInitShortSettle(t) ==
  LET a1 == GpioInit(t, "dc")
      a2 == GpioInit(a1, "cs")
      a3 == GpioInit(a2, "reset")
      a4 == GpioWrite(a3, "dc", TRUE)
      a5 == GpioWrite(a4, "cs", TRUE)
      a6 == GpioWrite(a5, "reset", TRUE)
      a7 == SpiInit(a6)
      a8 == Delay(a7, 10)
      a9 == GpioWrite(a8, "reset", TRUE)
      b1 == Delay(a9, 10)
      b2 == GpioWrite(b1, "reset", FALSE)
      b3 == Delay(b2, 10)
      b4 == GpioWrite(b3, "reset", TRUE)
  IN  Delay(b4, 12)

\* ST7735_4WireSpiTransport::Init
TransportInit(t) ==
  LET a1 == GpioInit(t, "dc")
      a2 == GpioInit(a1, "cs")
      a3 == GpioInit(a2, "reset")
      a4 == GpioWrite(a3, "dc", TRUE)
      a5 == GpioWrite(a4, "cs", TRUE)
      a6 == GpioWrite(a5, "reset", TRUE)
      a7 == SpiInit(a6)
      a8 == Delay(a7, 10)
      a9 == GpioWrite(a8, "reset", TRUE)
      b1 == Delay(a9, 10)
      b2 == GpioWrite(b1, "reset", FALSE)
      b3 == Delay(b2, 10)
      b4 == GpioWrite(b3, "reset", TRUE)
  IN  Delay(b4, 120)

\* ------------------------------------------------------------ framebuffer
\* A drawing operation works on fb = [buf, writes]: the buffer and the
\* indices of buffer_ it has stored to so far, in order.
Fb0 == [buf |-> buffer_, writes |-> <<>>]

\* buffer_[idx] = v
Store(fb, idx, v) ==
  [buf |-> IF idx \in DOMAIN fb.buf THEN [fb.buf EXCEPT ![idx] = v] ELSE fb.buf,
   writes |-> Append(fb.writes, idx)]

\* DrawPixelColor with the bounds test written x > width, y > height
DrawPixelColorOffByOne(fb, x, y, color) ==
  IF FastLess(Width, x) \/ FastLess(Height, y)
  THEN fb
  ELSE LET idx == (y * Width + x) * 2
       IN  Store(Store(fb, idx, Byte(color \div 256)), idx + 1, color % 256)

\* DrawPixelColor with only x tested against the bound
DrawPixelColorNoYTest(fb, x, y, color) ==
  IF ~FastLess(x, Width)
  THEN fb
  ELSE LET idx == (y * Width + x) * 2
       IN  Store(Store(fb, idx, Byte(color \div 256)), idx + 1, color % 256)

DrawPixelColor(fb, x, y, color) ==
  IF ~FastLess(x, Width) \/ ~FastLess(y, Height)
  THEN fb
  ELSE LET idx == (y * Width + x) * 2
       IN  Store(Store(fb, idx, Byte(color \div 256)), idx + 1, color % 256)

\* the loop of FillColor with += in place of =
RECURSIVE FillLoopAdd(_, _, _, _)
FillLoopAdd(fb, i, hi, lo) ==
  IF i < BufSize
  THEN FillLoopAdd(Store(Store(fb, i, Byte(fb.buf[i] + hi)), i + 1,
                         Byte(fb.buf[i + 1] + lo)), i + 2, hi, lo)
  ELSE fb

\* the loop of FillColor stopping one pixel before the end of the buffer
RECURSIVE FillLoopShort(_, _, _, _)
FillLoopShort(fb, i, hi, lo) ==
  IF i < BufSize - 2
  THEN FillLoopShort(Store(Store(fb, i, hi), i + 1, lo), i + 2, hi, lo)
  ELSE fb

RECURSIVE FillLoop(_, _, _, _)
FillLoop(fb, i, hi, lo) ==
  IF i < BufSize
  THEN FillLoop(Store(Store(fb, i, hi), i + 1, lo), i + 2, hi, lo)
  ELSE fb

FillColor(fb, color) == FillLoop(fb, 0, Byte(color \div 256), color % 256)

\* ---------------------------------------------------------------- RGB565
\* a & b and a | b on non-negative ints, bit by bit
RECURSIVE BitAnd(_, _)
BitAnd(a, b) ==
  IF a = 0 \/ b = 0 THEN 0
  ELSE (a % 2) * (b % 2) + 2 * BitAnd(a \div 2, b \div 2)

RECURSIVE BitOr(_, _)
BitOr(a, b) ==
  IF a = 0 THEN b
  ELSE IF b = 0 THEN a
  ELSE (IF a % 2 = 1 \/ b % 2 = 1 THEN 1 ELSE 0) + 2 * BitOr(a \div 2, b \div 2)

\* RGB565 with the green field shifted by 2 in place of 3
RGB565GreenShift(r, g, b) ==
  BitOr(BitOr(BitAnd(r, 248) * 256, BitAnd(g, 252) * 4), b \div 8) % 65536

\* ((r & 0xF8) << 8) | ((g & 0xFC) << 3) | (b >> 3), returned as uint16_t
RGB565(r, g, b) ==
  BitOr(BitOr(BitAnd(r, 248) * 256, BitAnd(g, 252) * 8), b \div 8) % 65536

\* ---------------------------------------------------------------- Update
\* the bytes of buffer_ as SendData(buffer_, sizeof(buffer_)) transmits them
BufferBytes(buf) == [i \in 1..BufSize |-> buf[i - 1]]

\* Update with width and height, not width - 1 and height - 1, as the ends
\* of the window
UpdateEndPastEdge(t, buf) ==
  LET t1 == SendCommand(t, 42)
      t2 == SendData(t1, <<0, 0, 0, Byte(Width)>>)
      t3 == SendCommand(t2, 43)
      t4 == SendData(t3, <<0, 0, 0, Byte(Height)>>)
      t5 == SendCommand(t4, 44)
  IN  SendData(t5, BufferBytes(buf))

Update(t, buf) ==
  LET t1 == SendCommand(t, 42)
      t2 == SendData(t1, <<0, 0, 0, Byte(Width - 1)>>)
      t3 == SendCommand(t2, 43)
      t4 == SendData(t3, <<0, 0, 0, Byte(Height - 1)>>)
      t5 == SendCommand(t4, 44)
  IN  SendData(t5, BufferBytes(buf))

\* ------------------------------------------------------------- rasterizer
RECURSIVE HLineLoop(_, _, _, _, _, _)
HLineLoop(fb, i, x, y, w, color) ==
  IF FastLess(i, x + w) /\ FastLess(i, Width)
  THEN HLineLoop(DrawPixelColor(fb, i, y, color), FastWrap(i + 1), x, y, w, color)
  ELSE fb

DrawHLineColor(fb, x, y, w, color) == HLineLoop(fb, x, x, y, w, color)

RECURSIVE VLineLoop(_, _, _, _, _, _)
VLineLoop(fb, j, x, y, h, color) ==
  IF FastLess(j, y + h) /\ FastLess(j, Height)
  THEN VLineLoop(DrawPixelColor(fb, x, j, color), FastWrap(j + 1), x, y, h, color)
  ELSE fb

DrawVLineColor(fb, x, y, h, color) == VLineLoop(fb, y, x, y, h, color)

\* the outer loop of DrawRectFilled runs the inner loop, which is the loop
\* of DrawHLineColor, once per row
RECURSIVE RectFilledLoop(_, _, _, _, _, _, _)
RectFilledLoop(fb, j, x, y, w, h, color) ==
  IF FastLess(j, y + h) /\ FastLess(j, Height)
  THEN RectFilledLoop(HLineLoop(fb, x, x, j, w, color), FastWrap(j + 1),
                      x, y, w, h, color)
  ELSE fb

DrawRectFilled(fb, x, y, w, h, color) == RectFilledLoop(fb, y, x, y, w, h, color)

\* x2 - x1 + 1 and y2 - y1 + 1 are converted to the uint_fast8_t parameter
DrawRectColor(fb, x1, y1, x2, y2, color) ==
  LET w  == FastWrap(x2 - x1 + 1)
      h  == FastWrap(y2 - y1 + 1)
      f1 == DrawHLineColor(fb, x1, y1, w, color)
      f2 == DrawHLineColor(f1, x1, y2, w, color)
      f3 == DrawVLineColor(f2, x1, y1, h, color)
  IN  DrawVLineColor(f3, x2, y1, h, color)

Abs(n) == IF n < 0 THEN -n ELSE n

\* the loop of DrawLineColor with the test for the endpoint made before the
\* pixel is drawn
RECURSIVE LineLoopNoEnd(_, _, _, _, _, _, _, _, _, _, _)
LineLoopNoEnd(fb, x1, y1, x2, y2, dx, dy, sx, sy, err, color) ==
  LET e2 == 2 * err
      stepX == e2 > -dy
      stepY == e2 < dx
      err1 == IF stepX THEN err - dy ELSE err
      nx == IF stepX THEN FastWrap(x1 + sx) ELSE x1
      err2 == IF stepY THEN err1 + dx ELSE err1
      ny == IF stepY THEN FastWrap(y1 + sy) ELSE y1
  IN  IF x1 = x2 /\ y1 = y2
      THEN fb
      ELSE LineLoopNoEnd(DrawPixelColor(fb, x1, y1, color), nx, ny, x2, y2,
                         dx, dy, sx, sy, err2, color)

\* the loop of DrawLineColor with the second test written e2 <= dx
RECURSIVE LineLoopTie(_, _, _, _, _, _, _, _, _, _, _)
LineLoopTie(fb, x1, y1, x2, y2, dx, dy, sx, sy, err, color) ==
  LET f1 == DrawPixelColor(fb, x1, y1, color)
      e2 == 2 * err
      stepX == e2 > -dy
      stepY == e2 <= dx
      err1 == IF stepX THEN err - dy ELSE err
      nx == IF stepX THEN FastWrap(x1 + sx) ELSE x1
      err2 == IF stepY THEN err1 + dx ELSE err1
      ny == IF stepY THEN FastWrap(y1 + sy) ELSE y1
  IN  IF x1 = x2 /\ y1 = y2
      THEN f1
      ELSE LineLoopTie(f1, nx, ny, x2, y2, dx, dy, sx, sy, err2, color)

RECURSIVE LineLoop(_, _, _, _, _, _, _, _, _, _, _)
LineLoop(fb, x1, y1, x2, y2, dx, dy, sx, sy, err, color) ==
  LET f1 == DrawPixelColor(fb, x1, y1, color)
      e2 == 2 * err
      stepX == e2 > -dy
      stepY == e2 < dx
      err1 == IF stepX THEN err - dy ELSE err
      nx == IF stepX THEN FastWrap(x1 + sx) ELSE x1
      err2 == IF stepY THEN err1 + dx ELSE err1
      ny == IF stepY THEN FastWrap(y1 + sy) ELSE y1
  IN  IF x1 = x2 /\ y1 = y2
      THEN f1
      ELSE LineLoop(f1, nx, ny, x2, y2, dx, dy, sx, sy, err2, color)

DrawLineColor(fb, x1, y1, x2, y2, color) ==
  LET dx == Abs(x2 - x1)
      dy == Abs(y2 - y1)
      sx == IF FastLess(x1, x2) THEN 1 ELSE -1
      sy == IF FastLess(y1, y2) THEN 1 ELSE -1
  IN  LineLoop(fb, x1, y1, x2, y2, dx, dy, sx, sy, dx - dy, color)

\* the colour of a boolean entry point with the accent colour for on
ThemeColorAccent(on) == IF on THEN accent_color_ ELSE background_color_

\* on ? foreground_color_ : background_color_
ThemeColor(on) == IF on THEN foreground_color_ ELSE background_color_

\* ------------------------------------------------------------ Init script
\* the script with display-on sent before the gamma tables
InitScriptDisplayOnEarly ==
  << <<"cmd", 1>>, <<"delay", 150>>,
     <<"cmd", 17>>, <<"delay", 120>>,
     <<"cmd", 177>>, <<"data", <<1, 44, 45>>>>,
     <<"cmd", 178>>, <<"data", <<1, 44, 45>>>>,
     <<"cmd", 179>>, <<"data", <<1, 44, 45, 1, 44, 45>>>>,
     <<"cmd", 180>>, <<"data", <<7>>>>,
     <<"cmd", 192>>, <<"data", <<162, 2, 132>>>>,
     <<"cmd", 193>>, <<"data", <<197>>>>,
     <<"cmd", 194>>, <<"data", <<10, 0>>>>,
     <<"cmd", 195>>, <<"data", <<138, 42>>>>,
     <<"cmd", 196>>, <<"data", <<138, 238>>>>,
     <<"cmd", 197>>, <<"data", <<14>>>>,
     <<"cmd", 32>>,
     <<"cmd", 54>>, <<"data", <<200>>>>,
     <<"cmd", 58>>, <<"data", <<5>>>>,
     <<"delay", 10>>,
     <<"cmd", 41>>, <<"delay", 100>>,
     <<"cmd", 224>>,
     <<"data", <<2, 28, 7, 18, 55, 50, 41, 45, 41, 37, 43, 57, 0, 1, 3, 16>>>>,
     <<"cmd", 225>>,
     <<"data", <<3, 29, 7, 6, 46, 44, 41, 45, 46, 46, 55, 63, 0, 0, 2, 16>>>>,
     <<"cmd", 19>>, <<"delay", 10>>
  >>

\* the commands, parameter blocks and delays of ST7735Driver::Init between
\* the transport's Init and the clearing of the screen, in program order
InitScript ==
  << <<"cmd", 1>>, <<"delay", 150>>,
     <<"cmd", 17>>, <<"delay", 120>>,
     <<"cmd", 177>>, <<"data", <<1, 44, 45>>>>,
     <<"cmd", 178>>, <<"data", <<1, 44, 45>>>>,
     <<"cmd", 179>>, <<"data", <<1, 44, 45, 1, 44, 45>>>>,
     <<"cmd", 180>>, <<"data", <<7>>>>,
     <<"cmd", 192>>, <<"data", <<162, 2, 132>>>>,
     <<"cmd", 193>>, <<"data", <<197>>>>,
     <<"cmd", 194>>, <<"data", <<10, 0>>>>,
     <<"cmd", 195>>, <<"data", <<138, 42>>>>,
     <<"cmd", 196>>, <<"data", <<138, 238>>>>,
     <<"cmd", 197>>, <<"data", <<14>>>>,
     <<"cmd", 32>>,
     <<"cmd", 54>>, <<"data", <<200>>>>,
     <<"cmd", 58>>, <<"data", <<5>>>>,
     <<"delay", 10>>,
     <<"cmd", 224>>,
     <<"data", <<2, 28, 7, 18, 55, 50, 41, 45, 41, 37, 43, 57, 0, 1, 3, 16>>>>,
     <<"cmd", 225>>,
     <<"data", <<3, 29, 7, 6, 46, 44, 41, 45, 46, 46, 55, 63, 0, 0, 2, 16>>>>,
     <<"cmd", 19>>, <<"delay", 10>>,
     <<"cmd", 41>>, <<"delay", 100>>
  >>

RunStep(t, s) ==
  IF s[1] = "cmd" THEN SendCommand(t, s[2])
  ELSE IF s[1] = "data" THEN SendData(t, s[2])
  ELSE Delay(t, s[2])

\* the steps script[i..] run in order; each step puts at least one event
\* on the bus, which is looked at before the next step is run
RECURSIVE RunScript(_, _, _)
RunScript(t, script, i) ==
  IF i > Len(script) THEN t
  ELSE LET t1 == RunStep(t, script[i])
       IN  IF Len(t1.wire) > Len(t.wire) THEN RunScript(t1, script, i + 1) ELSE t1

\* Init that sends the frame before it clears the buffer
DriverInitUpdateFirst(t, fb) ==
  LET fg == COLOR_WHITE
      bg == COLOR_BLACK
      ac == COLOR_CYAN
      t1 == RunScript(TransportInit(t), InitScript, 1)
      f1 == FillColor(fb, bg)
  IN  [fg |-> fg, bg |-> bg, ac |-> ac, fb |-> f1, t |-> Update(t1, fb.buf)]

\* ST7735Driver::Init: the transport's Init, the theme, the script, then
\* Fill(false), which fills with the background colour just set, and Update()
DriverInit(t, fb) ==
  LET fg == COLOR_WHITE
      bg == COLOR_BLACK
      ac == COLOR_CYAN
      t1 == RunScript(TransportInit(t), InitScript, 1)
      f1 == FillColor(fb, bg)
  IN  [fg |-> fg, bg |-> bg, ac |-> ac, fb |-> f1, t |-> Update(t1, f1.buf)]

\* ------------------------------------------------------- calls and inputs
\* arguments the calls are made with: every coordinate of the panel, the
\* first one past each edge, and the largest value of the type
XArgs == (0..Width) \cup {FastMax}
YArgs == (0..Height) \cup {FastMax}
WArgs == (0..(Width + 1)) \cup {FastMax}
HArgs == (0..(Height + 1)) \cup {FastMax}
\* line endpoints: a line takes as many steps as it is long (2^32 - 1 of
\* them to the largest 32-bit value), so the endpoints are the coordinates
\* of the panel and the first one past each edge
LineXArgs == 0..Width
LineYArgs == 0..Height
ArgColors == {COLOR_RED, COLOR_SKYBLUE}

\* contents buffer_ may have before a call: indeterminate at power-on, and
\* any bytes at all once pixels have been drawn
Gradient == [i \in 0..(BufSize - 1) |-> (7 * i + 3) % 256]
Uniform(color) ==
  [i \in 0..(BufSize - 1) |-> IF i % 2 = 0 THEN Byte(color \div 256) ELSE color % 256]
StartBuffers == {Uniform(COLOR_BLACK), Gradient}
StartThemes == {<<COLOR_WHITE, COLOR_BLACK, COLOR_CYAN>>,
                <<COLOR_SKYBLUE, COLOR_RED, COLOR_MAGENTA>>}

\* one call of the API: the new buffer and stores (fb), transport (t) and
\* theme, and the record of the call added to hist
Call(op, args, fb, t, fg, bg, ac) ==
  /\ buffer_' = fb.buf
  /\ pin_dc_' = t.dc
  /\ pin_cs_' = t.cs
  /\ pin_reset_' = t.reset
  /\ wire' = t.wire
  /\ foreground_color_' = fg
  /\ background_color_' = bg
  /\ accent_color_' = ac
  /\ hist' = Append(hist, [op |-> op, args |-> args, pre |-> buffer_,
                           fg |-> foreground_color_, bg |-> background_color_,
                           ac |-> accent_color_, wlen |-> Len(wire),
                           writes |-> fb.writes])
  /\ UNCHANGED <<fastBits, line>>

\* a drawing call that sends the frame before it returns
DrawAndFlush(op, args, fb) ==
  /\ inited
  /\ Call(op, args, fb, Update(Transport, fb.buf),
          foreground_color_, background_color_, accent_color_)
  /\ UNCHANGED inited

\* a drawing call: only the buffer changes
Draw(op, args, fb) ==
  /\ inited
  /\ Call(op, args, fb, Transport, foreground_color_, background_color_, accent_color_)
  /\ UNCHANGED inited

\* a theme call: only the theme changes
Theme(op, args, fg, bg, ac) ==
  /\ inited
  /\ Call(op, args, Fb0, Transport, fg, bg, ac)
  /\ UNCHANGED inited

InitCall ==
  /\ ~inited
  /\ LET d == DriverInit(Transport, Fb0)
     IN  Call("Init", <<>>, d.fb, d.t, d.fg, d.bg, d.ac)
  /\ inited' = TRUE

UpdateCall ==
  /\ inited
  /\ Call("Update", <<>>, Fb0, Update(Transport, buffer_),
          foreground_color_, background_color_, accent_color_)
  /\ UNCHANGED inited

SetForegroundColorCall ==
  \E c \in ArgColors :
    Theme("SetForegroundColor", <<c>>, c, background_color_, accent_color_)

SetBackgroundColorCall ==
  \E c \in ArgColors :
    Theme("SetBackgroundColor", <<c>>, foreground_color_, c, accent_color_)

SetAccentColorCall ==
  \E c \in ArgColors :
    Theme("SetAccentColor", <<c>>, foreground_color_, background_color_, c)

SetThemeCall ==
  \E th \in StartThemes : Theme("SetTheme", th, th[1], th[2], th[3])

\* SetThemeDefault .. SetThemeNeon
PresetThemes ==
  << <<COLOR_WHITE, COLOR_BLACK, COLOR_CYAN>>,
     <<COLOR_CYAN, COLOR_DARKBLUE, COLOR_MAGENTA>>,
     <<COLOR_GREEN, COLOR_BLACK, COLOR_LIME>>,
     <<COLOR_ORANGE, COLOR_PURPLE, COLOR_YELLOW>>,
     <<COLOR_SKYBLUE, COLOR_NAVY, COLOR_CYAN>>,
     <<COLOR_YELLOW, COLOR_BROWN, COLOR_ORANGE>>,
     <<COLOR_MAGENTA, COLOR_BLACK, COLOR_CYAN>> >>

SetThemePresetCall ==
  \E k \in 1..Len(PresetThemes) :
    Theme("SetThemePreset", <<k>>,
          PresetThemes[k][1], PresetThemes[k][2], PresetThemes[k][3])

DrawPixelColorCall ==
  \E x \in XArgs, y \in YArgs, c \in ArgColors :
    Draw("DrawPixelColor", <<x, y, c>>, DrawPixelColor(Fb0, x, y, c))

DrawPixelCall ==
  \E x \in XArgs, y \in YArgs, on \in BOOLEAN :
    Draw("DrawPixel", <<x, y, on>>, DrawPixelColor(Fb0, x, y, ThemeColor(on)))

\* r, g, b arguments: every value of each channel, the other two channels
\* at their least and largest values and at 0xAA
ChannelEnds == {0, 170, 255}
RgbArgs ==
  {<<r, g, b>> : r \in 0..255, g \in ChannelEnds, b \in ChannelEnds}
    \cup {<<r, g, b>> : r \in ChannelEnds, g \in 0..255, b \in ChannelEnds}
    \cup {<<r, g, b>> : r \in ChannelEnds, g \in ChannelEnds, b \in 0..255}

DrawPixelRGBCall ==
  \E x \in {0, Width - 1}, y \in {Height - 1}, rgb \in RgbArgs :
    Draw("DrawPixelRGB", <<x, y, rgb[1], rgb[2], rgb[3]>>,
         DrawPixelColor(Fb0, x, y, RGB565(rgb[1], rgb[2], rgb[3])))

FillColorCall ==
  \E c \in ArgColors : Draw("FillColor", <<c>>, FillColor(Fb0, c))

FillCall ==
  \E on \in BOOLEAN : Draw("Fill", <<on>>, FillColor(Fb0, ThemeColor(on)))

DrawRectFilledCall ==
  \E x \in XArgs, y \in YArgs, w \in WArgs, h \in HArgs, c \in ArgColors :
    Draw("DrawRectFilled", <<x, y, w, h, c>>, DrawRectFilled(Fb0, x, y, w, h, c))

DrawRectColorCall ==
  \E x1 \in XArgs, y1 \in YArgs, x2 \in XArgs, y2 \in YArgs, c \in ArgColors :
    Draw("DrawRectColor", <<x1, y1, x2, y2, c>>,
         DrawRectColor(Fb0, x1, y1, x2, y2, c))

DrawRectCall ==
  \E x1 \in XArgs, y1 \in YArgs, x2 \in XArgs, y2 \in YArgs, on \in BOOLEAN :
    Draw("DrawRect", <<x1, y1, x2, y2, on>>,
         DrawRectColor(Fb0, x1, y1, x2, y2, ThemeColor(on)))

DrawHLineColorCall ==
  \E x \in XArgs, y \in YArgs, w \in WArgs, c \in ArgColors :
    Draw("DrawHLineColor", <<x, y, w, c>>, DrawHLineColor(Fb0, x, y, w, c))

DrawHLineCall ==
  \E x \in XArgs, y \in YArgs, w \in WArgs, on \in BOOLEAN :
    Draw("DrawHLine", <<x, y, w, on>>, DrawHLineColor(Fb0, x, y, w, ThemeColor(on)))

DrawVLineColorCall ==
  \E x \in XArgs, y \in YArgs, h \in HArgs, c \in ArgColors :
    Draw("DrawVLineColor", <<x, y, h, c>>, DrawVLineColor(Fb0, x, y, h, c))

DrawVLineCall ==
  \E x \in XArgs, y \in YArgs, h \in HArgs, on \in BOOLEAN :
    Draw("DrawVLine", <<x, y, h, on>>, DrawVLineColor(Fb0, x, y, h, ThemeColor(on)))

DrawLineColorCall ==
  \E x1 \in LineXArgs, y1 \in LineYArgs, x2 \in LineXArgs, y2 \in LineYArgs,
     c \in ArgColors :
    Draw("DrawLineColor", <<x1, y1, x2, y2, c>>,
         DrawLineColor(Fb0, x1, y1, x2, y2, c))

DrawLineCall ==
  \E x1 \in LineXArgs, y1 \in LineYArgs, x2 \in LineXArgs, y2 \in LineYArgs,
     on \in BOOLEAN :
    Draw("DrawLine", <<x1, y1, x2, y2, on>>,
         DrawLineColor(Fb0, x1, y1, x2, y2, ThemeColor(on)))

\* ------------------------------------------ DrawLineColor, step by step
\* The call as the loop runs it, one iteration a step, for endpoints of
\* any value of the coordinate type. pc is "idle" (no call), "loop" (at
\* the head of the loop body) or "done" (returned); x1, y1, err are the
\* locals the loop changes; x0, y0 are the arguments x1, y1 as passed,
\* px, py the point of the iteration before and n the iterations done.
LineIdle ==
  [pc |-> "idle", x1 |-> 0, y1 |-> 0, x2 |-> 0, y2 |-> 0, dx |-> 0, dy |-> 0,
   sx |-> 0, sy |-> 0, err |-> 0, color |-> 0,
   x0 |-> 0, y0 |-> 0, px |-> 0, py |-> 0, n |-> 0]

LineEndXArgs == (0..Width) \cup {FastMax}
LineEndYArgs == (0..Height) \cup {FastMax}

\* entry: the locals as the declarations before the loop set them
LineBegin ==
  /\ inited
  /\ line.pc = "idle"
  /\ \E x1 \in LineEndXArgs, y1 \in LineEndYArgs,
        x2 \in LineEndXArgs, y2 \in LineEndYArgs, c \in ArgColors :
       line' = [pc |-> "loop", x1 |-> x1, y1 |-> y1, x2 |-> x2, y2 |-> y2,
                dx |-> Abs(x2 - x1), dy |-> Abs(y2 - y1),
                sx |-> IF FastLess(x1, x2) THEN 1 ELSE -1,
                sy |-> IF FastLess(y1, y2) THEN 1 ELSE -1,
                err |-> Abs(x2 - x1) - Abs(y2 - y1), color |-> c,
                x0 |-> x1, y0 |-> y1, px |-> x1, py |-> y1, n |-> 0]
  /\ UNCHANGED <<fastBits, inited, buffer_, foreground_color_, background_color_,
                 accent_color_, pin_dc_, pin_cs_, pin_reset_, wire, hist>>

\* one iteration: plot, leave the loop at the endpoint, else advance
LineStep ==
  /\ line.pc = "loop"
  /\ line.n < MaxLineSteps
  /\ buffer_' = DrawPixelColor(Fb0, line.x1, line.y1, line.color).buf
  /\ LET e2 == 2 * line.err
         stepX == e2 > -line.dy
         stepY == e2 < line.dx
         err1 == IF stepX THEN line.err - line.dy ELSE line.err
     IN  IF line.x1 = line.x2 /\ line.y1 = line.y2
         THEN line' = [line EXCEPT !.pc = "done"]
         ELSE line' = [line EXCEPT
                !.x1 = IF stepX THEN FastWrap(line.x1 + line.sx) ELSE line.x1,
                !.y1 = IF stepY THEN FastWrap(line.y1 + line.sy) ELSE line.y1,
                !.err = IF stepY THEN err1 + line.dx ELSE err1,
                !.px = line.x1, !.py = line.y1, !.n = line.n + 1]
  /\ UNCHANGED <<fastBits, inited, foreground_color_, background_color_,
                 accent_color_, pin_dc_, pin_cs_, pin_reset_, wire, hist>>

\* --------------------------------------------------------- specifications
\* the object as constructed: nothing is initialised
PowerOn ==
  /\ fastBits \in FastWidths
  /\ inited = FALSE
  /\ buffer_ \in StartBuffers
  /\ \E th \in StartThemes :
       /\ foreground_color_ = th[1]
       /\ background_color_ = th[2]
       /\ accent_color_ = th[3]
  /\ pin_dc_ = "unset"
  /\ pin_cs_ = "unset"
  /\ pin_reset_ = "unset"
  /\ wire = <<>>
  /\ hist = <<>>
  /\ line = LineIdle

\* the object at some moment between two calls, after Init: any buffer, any
\* theme, the pins as every call leaves them; wire and hist start here
Ready ==
  /\ fastBits \in FastWidths
  /\ inited = TRUE
  /\ buffer_ \in StartBuffers
  /\ \E th \in StartThemes :
       /\ foreground_color_ = th[1]
       /\ background_color_ = th[2]
       /\ accent_color_ = th[3]
  /\ pin_dc_ = "high"
  /\ pin_cs_ = "high"
  /\ pin_reset_ = "high"
  /\ wire = <<>>
  /\ hist = <<>>
  /\ line = LineIdle

\* life cycle: Init, then calls that do not take coordinates
LifeNext ==
  \/ InitCall
  \/ /\ Len(hist) <= MaxCalls
     /\ \/ UpdateCall
        \/ FillCall
        \/ FillColorCall
        \/ SetForegroundColorCall
        \/ SetBackgroundColorCall
        \/ SetAccentColorCall
        \/ SetThemeCall
        \/ SetThemePresetCall

Spec == PowerOn /\ [][LifeNext]_vars

\* one drawing call from any state, then Update
PixelNext ==
  \/ /\ hist = <<>>
     /\ (DrawPixelColorCall \/ DrawPixelCall)
  \/ /\ Len(hist) = 1
     /\ UpdateCall

SpecPixel == Ready /\ [][PixelNext]_vars

LineNext ==
  \/ /\ hist = <<>>
     /\ (DrawLineColorCall \/ DrawLineCall)
  \/ /\ Len(hist) = 1
     /\ UpdateCall

SpecLine == Ready /\ [][LineNext]_vars

RectNext ==
  \/ /\ hist = <<>>
     /\ (DrawRectColorCall \/ DrawRectCall)
  \/ /\ Len(hist) = 1
     /\ UpdateCall

SpecRect == Ready /\ [][RectNext]_vars

DrawNext ==
  \/ /\ hist = <<>>
     /\ \/ DrawPixelColorCall
        \/ DrawPixelCall
        \/ FillColorCall
        \/ FillCall
        \/ DrawRectFilledCall
        \/ DrawRectColorCall
        \/ DrawRectCall
        \/ DrawHLineColorCall
        \/ DrawHLineCall
        \/ DrawVLineColorCall
        \/ DrawVLineCall
        \/ DrawLineColorCall
        \/ DrawLineCall

SpecDraw == Ready /\ [][DrawNext]_vars

\* one pixel drawn from r, g, b, from any state
RGBNext ==
  /\ hist = <<>>
  /\ DrawPixelRGBCall

SpecRGB == Ready /\ [][RGBNext]_vars

\* Update, then any one call
FrameNext ==
  \/ /\ hist = <<>>
     /\ UpdateCall
  \/ /\ Len(hist) = 1
     /\ \/ UpdateCall
        \/ DrawPixelColorCall
        \/ DrawPixelCall
        \/ DrawPixelRGBCall
        \/ FillColorCall
        \/ FillCall
        \/ DrawRectFilledCall
        \/ DrawRectColorCall
        \/ DrawRectCall
        \/ DrawHLineColorCall
        \/ DrawHLineCall
        \/ DrawVLineColorCall
        \/ DrawVLineCall
        \/ DrawLineColorCall
        \/ DrawLineCall
        \/ SetForegroundColorCall
        \/ SetBackgroundColorCall
        \/ SetAccentColorCall
        \/ SetThemeCall
        \/ SetThemePresetCall

SpecFrame == Ready /\ [][FrameNext]_vars

\* one DrawLineColor call, iteration by iteration
LineStepsNext == LineBegin \/ LineStep

SpecLineSteps == Ready /\ [][LineStepsNext]_vars

\* a theme colour set and then a boolean drawing call, or a boolean drawing
\* call and then a theme colour set
LegacyDraw ==
  \/ DrawPixelCall
  \/ FillCall
  \/ DrawRectCall
  \/ DrawHLineCall
  \/ DrawVLineCall
  \/ DrawLineCall

LegacyTheme ==
  \/ SetForegroundColorCall
  \/ SetBackgroundColorCall
  \/ SetAccentColorCall

LegacyNext ==
  \/ /\ hist = <<>>
     /\ (LegacyTheme \/ LegacyDraw)
  \/ /\ Len(hist) = 1
     /\ IF hist[1].op \in {"SetForegroundColor", "SetBackgroundColor", "SetAccentColor"}
        THEN LegacyDraw
        ELSE LegacyTheme

SpecLegacy == Ready /\ [][LegacyNext]_vars

\* FillColor and Update in any order from any state
FillUpdateNext ==
  /\ Len(hist) < MaxRounds
  /\ (FillColorCall \/ UpdateCall)

SpecFillUpdate == Ready /\ [][FillUpdateNext]_vars

\* ------------------------------------------------------- reading a run
\* the buffer as call k left it
Post(k) == IF k < Len(hist) THEN hist[k + 1].pre ELSE buffer_

\* what call k put on the bus
Segment(k) ==
  SubSeq(wire, hist[k].wlen + 1,
         IF k < Len(hist) THEN hist[k + 1].wlen ELSE Len(wire))

IsTx(e) == e.kind = "tx"
TxOf(events) == SelectSeq(events, IsTx)

\* the value of a coordinate argument lies on the panel (the largest 32-bit
\* value is held as -1 and does not)
OnX(x) == 0 <= x /\ x < Width
OnY(y) == 0 <= y /\ y < Height

Hi(color) == color \div 256
Lo(color) == color % 256
Idx(x, y) == (y * Width + x) * 2

\* ----------------------------------------------------------------- C1
\* C1: DrawPixelColor(x,y,color) with x < width and y < height leaves the
\* high byte of color at (y*width+x)*2 and the low byte at the next index
\* and no other byte changed; with x >= width or y >= height it leaves the
\* whole buffer unchanged.
C1_PixelStored ==
  \A k \in 1..Len(hist) :
    hist[k].op = "DrawPixelColor" =>
      LET x == hist[k].args[1]
          y == hist[k].args[2]
          c == hist[k].args[3]
          on == OnX(x) /\ OnY(y)
      IN  Post(k) = [i \in 0..(BufSize - 1) |->
                       IF on /\ i = Idx(x, y) THEN Hi(c)
                       ELSE IF on /\ i = Idx(x, y) + 1 THEN Lo(c)
                       ELSE hist[k].pre[i]]

\* a pixel on the panel has been drawn and the buffer has changed
C1_Witness ==
  /\ Len(hist) = 1
  /\ hist[1].op = "DrawPixelColor"
  /\ OnX(hist[1].args[1]) /\ OnY(hist[1].args[2])
  /\ hist[1].args[1] = Width - 1
  /\ buffer_ # hist[1].pre

\* ----------------------------------------------------------------- C2
\* the buffer DrawLineColor(x1,y1,x2,y2,c) leaves when started on buf
LineFrom(buf, x1, y1, x2, y2, c) ==
  DrawLineColor([buf |-> buf, writes |-> <<>>], x1, y1, x2, y2, c).buf

RECURSIVE Gcd(_, _)
Gcd(a, b) == IF b = 0 THEN a ELSE Gcd(b, a % b)

Max(a, b) == IF a < b THEN b ELSE a

\* no point of the ideal line lies midway between two pixels: the longer
\* extent divided by the gcd of the two extents is odd
NoTie(x1, y1, x2, y2) ==
  LET dx == Abs(x2 - x1)
      dy == Abs(y2 - y1)
  IN  (dx = 0 /\ dy = 0) \/ (Max(dx, dy) \div Gcd(dx, dy)) % 2 = 1

\* C2 as stated: DrawLineColor(x1,y1,x2,y2,c) and DrawLineColor(x2,y2,x1,y1,c)
\* started on the same buffer leave equal buffers, for all endpoints.
C2_SymmetricAlways ==
  \A k \in 1..Len(hist) :
    hist[k].op = "DrawLineColor" =>
      LET a == hist[k].args
      IN  Post(k) = LineFrom(hist[k].pre, a[3], a[4], a[1], a[2], a[5])

\* C2 amended: the two calls leave equal buffers whenever the longer of
\* |x2-x1|, |y2-y1| divided by their gcd is odd (every horizontal, vertical
\* and 45-degree line and every single point is such a line).
C2_SymmetricNoTie ==
  \A k \in 1..Len(hist) :
    (hist[k].op = "DrawLineColor"
       /\ NoTie(hist[k].args[1], hist[k].args[2], hist[k].args[3], hist[k].args[4])) =>
      LET a == hist[k].args
      IN  Post(k) = LineFrom(hist[k].pre, a[3], a[4], a[1], a[2], a[5])

\* a slanted line without a tie, (0,0)-(3,1), has been drawn
C2_Witness ==
  /\ Len(hist) = 1
  /\ hist[1].op = "DrawLineColor"
  /\ SubSeq(hist[1].args, 1, 4) = <<0, 0, 3, 1>>
  /\ buffer_ # hist[1].pre

\* ----------------------------------------------------------------- C8
\* C8: DrawLineColor(0,0,4,2,color) on a buffer at least 5 wide and 3 high
\* stores to the pixels (0,0),(1,0),(2,1),(3,1),(4,2), in that order, and
\* leaves every other pixel as it was.
GoldenLine == <<Idx(0, 0), Idx(1, 0), Idx(2, 1), Idx(3, 1), Idx(4, 2)>>

C8_GoldenTrace ==
  \A k \in 1..Len(hist) :
    (hist[k].op = "DrawLineColor" /\ SubSeq(hist[k].args, 1, 4) = <<0, 0, 4, 2>>) =>
      LET c == hist[k].args[5]
          pix == {GoldenLine[n] : n \in 1..5}
      IN  /\ hist[k].writes = [n \in 1..10 |->
                                 GoldenLine[(n + 1) \div 2] + ((n + 1) % 2)]
          /\ Post(k) = [i \in 0..(BufSize - 1) |->
                          IF i \in pix THEN Hi(c)
                          ELSE IF (i - 1) \in pix THEN Lo(c)
                          ELSE hist[k].pre[i]]

\* the line (0,0)-(4,2) has been drawn
C8_Witness ==
  /\ Len(hist) = 1
  /\ hist[1].op = "DrawLineColor"
  /\ SubSeq(hist[1].args, 1, 4) = <<0, 0, 4, 2>>
  /\ Len(hist[1].writes) = 10
  /\ buffer_ # hist[1].pre

\* ----------------------------------------------------------------- C6
DrawOps == {"DrawPixelColor", "DrawPixel", "FillColor", "Fill", "DrawRectFilled",
            "DrawRectColor", "DrawRect", "DrawHLineColor", "DrawHLine",
            "DrawVLineColor", "DrawVLine", "DrawLineColor", "DrawLine"}

\* C6: every drawing operation, whatever its coordinate and size arguments
\* (DrawRectColor with x1 > x2 or y1 > y2 included), returns, stores only
\* to indices in [0, width*height*2), and stores the two bytes of a pixel
\* together: the high byte at an even index, then the low byte after it.
C6_StoresOnPanel ==
  \A k \in 1..Len(hist) :
    hist[k].op \in DrawOps =>
      LET w == hist[k].writes
      IN  /\ Len(w) % 2 = 0
          /\ \A n \in 1..(Len(w) \div 2) :
               /\ w[2 * n - 1] \in 0..(BufSize - 2)
               /\ w[2 * n - 1] % 2 = 0
               /\ w[2 * n] = w[2 * n - 1] + 1

\* DrawRectColor with x1 > x2 and y1 > y2 has been called and has stored
C6_Witness ==
  /\ Len(hist) = 1
  /\ hist[1].op = "DrawRectColor"
  /\ SubSeq(hist[1].args, 1, 4) = <<3, 2, 1, 0>>
  /\ Len(hist[1].writes) > 0

\* ----------------------------------------------------------------- C9
\* a <= b on two values of the coordinate type
FastLeq(a, b) == ~FastLess(b, a)

\* C9: for x1 <= x2 and y1 <= y2, DrawRectColor(x1,y1,x2,y2,color) sets to
\* color exactly the pixels (i,j) of the panel with (j in {y1,y2} and
\* x1 <= i <= x2) or (i in {x1,x2} and y1 <= j <= y2), and leaves every
\* other pixel as it was.
C9_OutlineExact ==
  \A k \in 1..Len(hist) :
    LET a == hist[k].args
    IN  (hist[k].op = "DrawRectColor" /\ FastLeq(a[1], a[3]) /\ FastLeq(a[2], a[4])) =>
          Post(k) = [i \in 0..(BufSize - 1) |->
            LET px == (i \div 2) % Width
                py == (i \div 2) \div Width
                edge == \/ /\ py \in {a[2], a[4]}
                           /\ FastLeq(a[1], px) /\ FastLeq(px, a[3])
                        \/ /\ px \in {a[1], a[3]}
                           /\ FastLeq(a[2], py) /\ FastLeq(py, a[4])
            IN  IF edge THEN (IF i % 2 = 0 THEN Hi(a[5]) ELSE Lo(a[5]))
                ELSE hist[k].pre[i]]

\* ----------------------------------------------------------------- C5
\* the window a column or row address block selects: first and last index
WindowOf(block) == <<block[1] * 256 + block[2], block[3] * 256 + block[4]>>

\* the colour a panel shows at (x,y) once it has stored the burst row-major
\* into the window cols x rows, two bytes a pixel, high byte first
PanelPixel(cols, rows, burst, x, y) ==
  LET n == ((y - rows[1]) * (cols[2] - cols[1] + 1) + (x - cols[1])) * 2
  IN  burst[n + 1] * 256 + burst[n + 2]

\* C5: Update() transmits command 0x2A, data 0,0,0,width-1, command 0x2B,
\* data 0,0,0,height-1, command 0x2C and one data burst of width*height*2
\* bytes equal to the framebuffer as of the call, and nothing else; a panel
\* storing the burst row-major into the addressed window then shows, at
\* every (x,y), the framebuffer's pixel.
C5_UpdateSequence ==
  \A k \in 1..Len(hist) :
    hist[k].op = "Update" =>
      LET tx == TxOf(Segment(k))
          fbuf == hist[k].pre
      IN  /\ Len(tx) = 6
          /\ [n \in 1..6 |-> tx[n].dc] = <<"low", "high", "low", "high", "low", "high">>
          /\ tx[1].bytes = <<42>>
          /\ tx[2].bytes = <<0, 0, 0, Width - 1>>
          /\ tx[3].bytes = <<43>>
          /\ tx[4].bytes = <<0, 0, 0, Height - 1>>
          /\ tx[5].bytes = <<44>>
          /\ Len(tx[6].bytes) = Width * Height * 2
          /\ \A n \in 1..(Width * Height * 2) : tx[6].bytes[n] = fbuf[n - 1]
          /\ WindowOf(tx[2].bytes) = <<0, Width - 1>>
          /\ WindowOf(tx[4].bytes) = <<0, Height - 1>>
          /\ \A x \in 0..(Width - 1), y \in 0..(Height - 1) :
               PanelPixel(WindowOf(tx[2].bytes), WindowOf(tx[4].bytes),
                          tx[6].bytes, x, y)
                 = fbuf[Idx(x, y)] * 256 + fbuf[Idx(x, y) + 1]
          /\ Post(k) = fbuf

\* Update has sent a buffer in which a pixel had just been drawn
C5_Witness ==
  /\ Len(hist) = 2
  /\ hist[2].op = "Update"
  /\ hist[1].op = "DrawPixelColor"
  /\ hist[2].pre # hist[1].pre
  /\ Len(TxOf(Segment(2))) = 6

\* ----------------------------------------------------------------- C7
\* C7: when FillColor(c); Update() is run twice in a row, the second pair
\* leaves the framebuffer as the first pair left it and puts on the bus the
\* same events as the first pair.
C7_FillUpdateIdempotent ==
  \A k \in 1..(Len(hist) - 3) :
    (/\ hist[k].op = "FillColor"
     /\ hist[k + 1].op = "Update"
     /\ hist[k + 2].op = "FillColor"
     /\ hist[k + 2].args = hist[k].args
     /\ hist[k + 3].op = "Update") =>
      /\ Post(k + 3) = Post(k + 1)
      /\ Segment(k + 2) \o Segment(k + 3) = Segment(k) \o Segment(k + 1)

\* the pair has been run twice and the first FillColor changed the buffer
C7_Witness ==
  /\ Len(hist) = 4
  /\ hist[1].op = "FillColor" /\ hist[2].op = "Update"
  /\ hist[3].op = "FillColor" /\ hist[4].op = "Update"
  /\ hist[3].args = hist[1].args
  /\ hist[2].pre # hist[1].pre
  /\ Len(Segment(4)) > 0

\* ----------------------------------------------------------------- C3
\* the opcodes transmitted as commands (data/command-select low), in order
IsCommand(e) == e.kind = "tx" /\ e.dc = "low"
Commands(events) ==
  LET sel == SelectSeq(events, IsCommand)
  IN  [n \in 1..Len(sel) |-> sel[n].bytes[1]]

\* index of the first element of s equal to v (Len(s) + 1 when there is none)
RECURSIVE FirstAt(_, _, _)
FirstAt(s, v, i) ==
  IF i > Len(s) \/ s[i] = v THEN i ELSE FirstAt(s, v, i + 1)

ScriptOpcodes == <<1, 17, 177, 178, 179, 180, 192, 193, 194, 195, 196, 197,
                   32, 54, 58, 224, 225, 19, 41>>
IsScriptOpcode(b) == \E n \in 1..Len(ScriptOpcodes) : ScriptOpcodes[n] = b

\* C3: within Init the opcodes 0x01, 0x11, 0xB1, 0xB2, 0xB3, 0xB4, 0xC0..0xC5,
\* 0x20, 0x36, 0x3A, 0xE0, 0xE1, 0x13, 0x29 are sent as commands once each
\* and in this order, each as a single byte; sleep-out, the power-control
\* writes and both gamma tables come before display-on, and 0x3A comes
\* before the first memory write 0x2C.
C3_InitOrder ==
  \A k \in 1..Len(hist) :
    hist[k].op = "Init" =>
      LET cmds == Commands(Segment(k))
          at(v) == FirstAt(cmds, v, 1)
      IN  /\ SelectSeq(cmds, IsScriptOpcode) = ScriptOpcodes
          /\ \A e \in {Segment(k)[n] : n \in 1..Len(Segment(k))} :
               IsCommand(e) => Len(e.bytes) = 1
          /\ \A v \in {17, 192, 193, 194, 195, 196, 224, 225} : at(v) < at(41)
          /\ at(58) < at(44)
          /\ at(44) <= Len(cmds)

\* Init has run and has sent display-on
C3_Witness ==
  /\ Len(hist) = 1
  /\ hist[1].op = "Init"
  /\ \E n \in 1..Len(wire) : IsCommand(wire[n]) /\ wire[n].bytes = <<41>>

\* ----------------------------------------------------------------- C4
\* which of SendCommand ("cmd") and SendData ("data") makes each
\* transmission of a call, in program order
UpdateSenders == <<"cmd", "data", "cmd", "data", "cmd", "data">>
IsSend(s) == s[1] # "delay"
InitSenders ==
  LET sends == SelectSeq(InitScript, IsSend)
  IN  [n \in 1..Len(sends) |-> sends[n][1]] \o UpdateSenders
Senders(op) ==
  IF op = "Init" THEN InitSenders
  ELSE IF op = "Update" THEN UpdateSenders
  ELSE <<>>

IsPinWrite(e, pin, level) == e.kind = "pin" /\ e.pin = pin /\ e.level = level

\* C4: a byte sent by SendCommand goes out with data/command-select low,
\* one sent by SendData with it high; chip-select is low during every
\* transmission, is driven low just before it and high again just after
\* it, and is high whenever a call has returned.
C4_SelectLines ==
  /\ \A k \in 1..Len(hist) :
       LET tx == TxOf(Segment(k))
           by == Senders(hist[k].op)
       IN  /\ Len(tx) = Len(by)
           /\ \A n \in 1..Len(tx) :
                tx[n].dc = (IF by[n] = "cmd" THEN "low" ELSE "high")
  /\ \A n \in 1..Len(wire) :
       wire[n].kind = "tx" =>
         /\ wire[n].cs = "low"
         /\ n > 1 /\ IsPinWrite(wire[n - 1], "cs", "low")
         /\ n < Len(wire) /\ IsPinWrite(wire[n + 1], "cs", "high")
  /\ inited => pin_cs_ = "high"

\* Init and then an Update have run
C4_Witness ==
  /\ Len(hist) = 2
  /\ hist[2].op = "Update"
  /\ Len(TxOf(Segment(1))) = Len(InitSenders)
  /\ Len(TxOf(Segment(2))) = 6

\* ---------------------------------------------------------------- C10
RECURSIVE DelayBetween(_, _)
\* the sum of the delays among wire[i+1 .. j-1]
DelayBetween(i, j) ==
  IF i + 1 >= j THEN 0
  ELSE (IF wire[i + 1].kind = "delay" THEN wire[i + 1].ms ELSE 0)
         + DelayBetween(i + 1, j)

ResetWrites(level) == {n \in 1..Len(wire) : IsPinWrite(wire[n], "reset", level)}
FirstTx == CHOOSE n \in 1..Len(wire) :
             wire[n].kind = "tx" /\ \A m \in 1..(n - 1) : wire[m].kind # "tx"

\* C10: Init drives reset high, waits at least 10, drives it low, waits at
\* least 10, drives it high and waits at least 120 before the first byte,
\* the command 0x01, is transmitted; reset is driven low that once and
\* never again.
C10_ResetPulse ==
  inited =>
    /\ Cardinality(ResetWrites("low")) = 1
    /\ LET lo == CHOOSE n \in ResetWrites("low") : TRUE
           before == {n \in ResetWrites("high") : n < lo}
           after == {n \in ResetWrites("high") : n > lo}
       IN  /\ before # {} /\ after # {}
           /\ LET up1 == CHOOSE n \in before : \A m \in before : m <= n
                  up2 == CHOOSE n \in after : \A m \in after : n <= m
              IN  /\ DelayBetween(up1, lo) >= 10
                  /\ DelayBetween(lo, up2) >= 10
                  /\ up2 < FirstTx
                  /\ DelayBetween(up2, FirstTx) >= 120
                  /\ after = {up2}
                  /\ wire[FirstTx].bytes = <<1>>
                  /\ wire[FirstTx].dc = "low"
    /\ pin_reset_ = "high"

\* Init and two more calls, an Update among them, have run
C10_Witness ==
  /\ Len(hist) = 3
  /\ hist[1].op = "Init"
  /\ hist[3].op = "Update"
  /\ ResetWrites("low") # {}

\* ---------------------------------------------------------------- C11
\* how many elements of s equal v
RECURSIVE CountOf(_, _, _)
CountOf(s, v, i) ==
  IF i > Len(s) THEN 0
  ELSE (IF s[i] = v THEN 1 ELSE 0) + CountOf(s, v, i + 1)

\* C11: when Init returns every pixel of the framebuffer is the background
\* colour, which is COLOR_BLACK, the theme is white on black with cyan, and
\* Init has sent one frame and no more: one 0x2A, one 0x2B and one 0x2C,
\* after display-on 0x29, the 0x2C followed by the whole buffer, every
\* pixel of it the background colour.
C11_InitEndState ==
  \A k \in 1..Len(hist) :
    hist[k].op = "Init" =>
      LET tx == TxOf(Segment(k))
          cmds == Commands(Segment(k))
          n == Len(tx)
          theme == IF k < Len(hist)
                   THEN <<hist[k + 1].fg, hist[k + 1].bg, hist[k + 1].ac>>
                   ELSE <<foreground_color_, background_color_, accent_color_>>
      IN  /\ theme = <<COLOR_WHITE, COLOR_BLACK, COLOR_CYAN>>
          /\ \A x \in 0..(Width - 1), y \in 0..(Height - 1) :
               /\ Post(k)[Idx(x, y)] = Hi(theme[2])
               /\ Post(k)[Idx(x, y) + 1] = Lo(theme[2])
          /\ CountOf(cmds, 42, 1) = 1
          /\ CountOf(cmds, 43, 1) = 1
          /\ CountOf(cmds, 44, 1) = 1
          /\ FirstAt(cmds, 41, 1) < FirstAt(cmds, 42, 1)
          /\ n >= 6
          /\ [i \in 1..5 |-> tx[n - 6 + i].bytes]
               = << <<42>>, <<0, 0, 0, Width - 1>>, <<43>>,
                    <<0, 0, 0, Height - 1>>, <<44>> >>
          /\ [i \in 1..6 |-> tx[n - 6 + i].dc]
               = <<"low", "high", "low", "high", "low", "high">>
          /\ Len(tx[n].bytes) = Width * Height * 2
          /\ \A i \in 1..(Width * Height * 2) :
               tx[n].bytes[i] = (IF i % 2 = 1 THEN Hi(theme[2]) ELSE Lo(theme[2]))

\* Init has run on a buffer that was not black under a theme that was not
\* the default one
C11_Witness ==
  /\ Len(hist) = 1
  /\ hist[1].op = "Init"
  /\ hist[1].pre = Gradient
  /\ hist[1].bg = COLOR_RED
  /\ buffer_ # hist[1].pre

\* ---------------------------------------------------------------- C12
\* C12: DrawLineColor(x,y,x,y,c) with (x,y) on the panel makes one plot, the
\* two stores of the pixel (x,y), and returns: that pixel is c and every
\* other byte is as it was.
C12_DegenerateLine ==
  \A k \in 1..Len(hist) :
    LET a == hist[k].args
    IN  (hist[k].op = "DrawLineColor" /\ a[1] = a[3] /\ a[2] = a[4]
           /\ OnX(a[1]) /\ OnY(a[2])) =>
          /\ hist[k].writes = <<Idx(a[1], a[2]), Idx(a[1], a[2]) + 1>>
          /\ Post(k) = [hist[k].pre EXCEPT ![Idx(a[1], a[2])] = Hi(a[5]),
                                           ![Idx(a[1], a[2]) + 1] = Lo(a[5])]

\* a line from (2,1) to (2,1) has been drawn and has changed the buffer
C12_Witness ==
  /\ Len(hist) = 1
  /\ hist[1].op = "DrawLineColor"
  /\ SubSeq(hist[1].args, 1, 4) = <<2, 1, 2, 1>>
  /\ buffer_ # hist[1].pre

\* ---------------------------------------------------------------- C13
\* i lies in [x, x + w) for a panel coordinate i and values x, w of the
\* coordinate type, x + w being the sum of the two numbers (the largest
\* 32-bit value is held as -1)
InSpan(i, x, w) == x >= 0 /\ x <= i /\ (w < 0 \/ i < x + w)

\* C13: DrawRectFilled(x,y,w,h,color) sets to color exactly the pixels
\* (i,j) with x <= i < min(x+w, width) and y <= j < min(y+h, height) and
\* leaves every other pixel as it was.
C13_FilledExact ==
  \A k \in 1..Len(hist) :
    LET a == hist[k].args
    IN  hist[k].op = "DrawRectFilled" =>
          Post(k) = [i \in 0..(BufSize - 1) |->
            LET px == (i \div 2) % Width
                py == (i \div 2) \div Width
            IN  IF InSpan(px, a[1], a[3]) /\ InSpan(py, a[2], a[4])
                THEN (IF i % 2 = 0 THEN Hi(a[5]) ELSE Lo(a[5]))
                ELSE hist[k].pre[i]]

\* ---------------------------------------------------------------- C14
\* C14: FillColor(color) from any buffer leaves every pixel equal to color:
\* every even-indexed byte of the width*height*2 bytes is the high byte of
\* color and every odd-indexed one the low byte, each byte stored once and
\* none outside the buffer.
C14_FillEveryByte ==
  \A k \in 1..Len(hist) :
    hist[k].op = "FillColor" =>
      LET c == hist[k].args[1]
      IN  /\ DOMAIN Post(k) = 0..(Width * Height * 2 - 1)
          /\ \A i \in 0..(Width * Height * 2 - 1) :
               Post(k)[i] = (IF i % 2 = 0 THEN Hi(c) ELSE Lo(c))
          /\ \A x \in 0..(Width - 1), y \in 0..(Height - 1) :
               Post(k)[Idx(x, y)] * 256 + Post(k)[Idx(x, y) + 1] = c
          /\ {hist[k].writes[n] : n \in 1..Len(hist[k].writes)}
               = 0..(Width * Height * 2 - 1)
          /\ Len(hist[k].writes) = Width * Height * 2

\* FillColor has run on a buffer no byte of which had the value it stored
C14_Witness ==
  /\ Len(hist) >= 1
  /\ hist[1].op = "FillColor"
  /\ hist[1].pre = Gradient
  /\ \A i \in 0..(BufSize - 1) : Post(1)[i] # hist[1].pre[i]

\* ---------------------------------------------------------------- C15
\* the pixel (x,y) of a buffer as a 16-bit number, high byte first
PixelAt(buf, x, y) == buf[Idx(x, y)] * 256 + buf[Idx(x, y) + 1]

\* C15: for r, g, b in 0..255, RGB565(r,g,b) is in 0..65535, its bits 15..11
\* are r >> 3, its bits 10..5 are g >> 2 and its bits 4..0 are b >> 3; it
\* is the pixel DrawPixelRGB stores, whatever the buffer and the theme.
C15_Rgb565Bits ==
  \A k \in 1..Len(hist) :
    hist[k].op = "DrawPixelRGB" =>
      LET a == hist[k].args
          v == PixelAt(Post(k), a[1], a[2])
      IN  /\ v \in 0..65535
          /\ v \div 2048 = a[3] \div 8
          /\ (v \div 32) % 64 = a[4] \div 4
          /\ v % 32 = a[5] \div 8
          /\ v = RGB565(a[3], a[4], a[5])

\* a colour whose channels have low bits that are dropped, r = 170,
\* g = 255, b = 170, has been drawn as 0xAFF5
C15_Witness ==
  /\ Len(hist) = 1
  /\ hist[1].op = "DrawPixelRGB"
  /\ SubSeq(hist[1].args, 3, 5) = <<170, 255, 170>>
  /\ PixelAt(buffer_, hist[1].args[1], hist[1].args[2]) = 45045

\* ---------------------------------------------------------------- C16
ThemeOps == {"SetForegroundColor", "SetBackgroundColor", "SetAccentColor",
             "SetTheme", "SetThemePreset"}

\* the theme colours as call k left them
ThemeAfter(k) ==
  IF k < Len(hist)
  THEN <<hist[k + 1].fg, hist[k + 1].bg, hist[k + 1].ac>>
  ELSE <<foreground_color_, background_color_, accent_color_>>

\* C16: no drawing operation and no theme setter puts anything on the bus
\* (no pin write, no byte, no delay); Update leaves the framebuffer and the
\* three theme colours as they were, and a theme setter leaves the
\* framebuffer as it was.
C16_FrameEffects ==
  \A k \in 1..Len(hist) :
    /\ hist[k].op \in DrawOps \cup {"DrawPixelRGB"} \cup ThemeOps =>
         Segment(k) = <<>>
    /\ hist[k].op = "Update" =>
         /\ Post(k) = hist[k].pre
         /\ ThemeAfter(k) = <<hist[k].fg, hist[k].bg, hist[k].ac>>
    /\ hist[k].op \in ThemeOps => Post(k) = hist[k].pre

\* after an Update has put events on the bus, a drawing call has changed
\* the buffer
C16_Witness ==
  /\ Len(hist) = 2
  /\ hist[1].op = "Update"
  /\ hist[2].op = "DrawRectFilled"
  /\ Len(wire) > 0
  /\ buffer_ # hist[2].pre

\* ---------------------------------------------------------------- C17
\* v lies between a and b, as numbers of the coordinate type
Between(a, v, b) ==
  \/ FastLeq(a, v) /\ FastLeq(v, b)
  \/ FastLeq(b, v) /\ FastLeq(v, a)

\* n <= |b - a| for the numbers a and b of the coordinate type (the largest
\* 32-bit value is held as -1; it is at least 2^31 away from every other
\* value that occurs, and n is not)
StepsWithin(n, a, b) ==
  IF (a < 0) # (b < 0) THEN TRUE ELSE n <= Abs(b - a)

\* v is u, or is one further toward b
OneToward(u, v, b) ==
  \/ v = u
  \/ FastLess(u, b) /\ v = FastWrap(u + 1)
  \/ FastLess(b, u) /\ v = FastWrap(u - 1)

\* C17: in a DrawLineColor call, for endpoints of any value of the
\* coordinate type, the current point stays in the bounding box of the two
\* endpoints, each iteration moves x and y by at most one toward (x2,y2),
\* and the point is (x2,y2), where the loop ends, by the time
\* max(|x2-x1|, |y2-y1|) iterations are done.
C17_LineReachesEnd ==
  line.pc # "idle" =>
    /\ Between(line.x0, line.x1, line.x2)
    /\ Between(line.y0, line.y1, line.y2)
    /\ OneToward(line.px, line.x1, line.x2)
    /\ OneToward(line.py, line.y1, line.y2)
    /\ StepsWithin(line.n, line.x0, line.x2) \/ StepsWithin(line.n, line.y0, line.y2)
    /\ (~StepsWithin(line.n + 1, line.x0, line.x2)
          /\ ~StepsWithin(line.n + 1, line.y0, line.y2)) =>
         (line.x1 = line.x2 /\ line.y1 = line.y2)

\* ------------------------------------------------- C6, DrawLineColor
\* C6 for a DrawLineColor call with endpoints of any value of the
\* coordinate type: the call stores inside the buffer only and returns,
\* which it does by reaching (x2,y2): every iteration takes the current
\* point nearer to (x2,y2) on at least one axis and farther on none.
C6_LineCallReturns ==
  /\ DOMAIN buffer_ = 0..(BufSize - 1)
  /\ (line.pc = "loop" /\ line.n > 0) =>
       /\ OneToward(line.px, line.x1, line.x2)
       /\ OneToward(line.py, line.y1, line.y2)
       /\ line.x1 # line.px \/ line.y1 # line.py

\* ---------------------------------------------------------------- C18
\* the buffer the colour-valued operation of a boolean entry point leaves
\* when it is given the buffer buf, the arguments a and the colour c
ColorForm(op, buf, a, c) ==
  LET fb == [buf |-> buf, writes |-> <<>>]
  IN  CASE op = "DrawPixel" -> DrawPixelColor(fb, a[1], a[2], c).buf
        [] op = "Fill"      -> FillColor(fb, c).buf
        [] op = "DrawRect"  -> DrawRectColor(fb, a[1], a[2], a[3], a[4], c).buf
        [] op = "DrawHLine" -> DrawHLineColor(fb, a[1], a[2], a[3], c).buf
        [] op = "DrawVLine" -> DrawVLineColor(fb, a[1], a[2], a[3], c).buf
        [] op = "DrawLine"  -> DrawLineColor(fb, a[1], a[2], a[3], a[4], c).buf

LegacyOps == {"DrawPixel", "Fill", "DrawRect", "DrawHLine", "DrawVLine", "DrawLine"}

\* C18: DrawPixel, Fill, DrawRect, DrawHLine, DrawVLine and DrawLine leave
\* the buffer their colour-valued operation leaves when given the
\* foreground colour as it is at the call (on) or the background colour as
\* it is at the call (off), whatever the accent colour; a theme colour set
\* afterwards changes no pixel.
C18_LegacyUsesTheme ==
  \A k \in 1..Len(hist) :
    /\ hist[k].op \in LegacyOps =>
         LET a == hist[k].args
             on == a[Len(a)]
         IN  Post(k) = ColorForm(hist[k].op, hist[k].pre, a,
                                 IF on THEN hist[k].fg ELSE hist[k].bg)
    /\ hist[k].op \in ThemeOps => Post(k) = hist[k].pre

\* the foreground colour has been set to one that is neither the old
\* foreground nor the accent colour, and DrawLine(on) has then drawn in it
C18_Witness ==
  /\ Len(hist) = 2
  /\ hist[1].op = "SetForegroundColor"
  /\ hist[2].op = "DrawLine"
  /\ hist[2].args = <<0, 0, 4, 2, TRUE>>
  /\ hist[2].fg # hist[1].fg
  /\ hist[2].fg # hist[2].ac
  /\ PixelAt(buffer_, 4, 2) = hist[2].fg
  /\ PixelAt(hist[2].pre, 4, 2) # hist[2].fg

\* ---------------------------------------------------------------- C19
\* C19: DrawRectColor(x1,y1,x2,y2,color) with x1 > x2 or y1 > y2 leaves the
\* framebuffer as it was.
C19_ReversedRectEmpty ==
  \A k \in 1..Len(hist) :
    LET a == hist[k].args
    IN  (hist[k].op = "DrawRectColor"
           /\ (FastLess(a[3], a[1]) \/ FastLess(a[4], a[2]))) =>
          Post(k) = hist[k].pre

=============================================================================
